---- MODULE Spec2Model ----
(***************************************************************************)
(* Frequent itemset mining by depth-first search over an inverted index,   *)
(* and the extraction of maximal and closed itemsets (src/src/main.py).    *)
(*                                                                         *)
(* Items are modelled by the integers 1..NumItems, ordered as the item     *)
(* labels are ordered by Python's string comparison.  A dict is a function *)
(* with a finite domain; the empty dict is the empty function << >>.       *)
(***************************************************************************)
EXTENDS Integers, Sequences, FiniteSets, TLC

\* ------------------------------------------------------------------ bounds
NumItems == 3
MaxTrans == 2

Items == 1..NumItems

\* Scenario 1 of the specification: transactions [{A,B}, {A,B}, {A}],
\* with item A modelled by 1 and item B by 2.
Scenario1 == <<{1, 2}, {1, 2}, {1}>>

RECURSIVE SeqsUpTo(_, _)
SeqsUpTo(S, n) ==
    IF n = 0 THEN {<< >>}
    ELSE LET shorter == SeqsUpTo(S, n - 1)
         IN  shorter \cup {Append(s, x) : s \in {q \in shorter : Len(q) = n - 1}, x \in S}

\* The transaction collections mining is run on.
Transactions == SeqsUpTo(SUBSET Items, MaxTrans) \cup {Scenario1}

VARIABLES
    T,                 \* the transaction collection (a sequence of item sets)
    min_support,       \* the threshold
    T_index,           \* the inverted index: item -> set of transaction indices
    pc,                \* position in the main block
    stack,             \* the active calls of find_frequent_sets_rec, root first
    L,                 \* frequent_itemsets, as returned
    maximal_itemsets,  \* result of get_maximal_itemsets
    closed_itemsets,   \* result of get_closed_itemsets
    formed,            \* history: how often each itemset was formed as new_set
    overwrites,        \* history: writes of an itemset key that was already present
    q_itemset,         \* argument of the last direct compute_support call
    q_support          \* its result

vars == <<T, min_support, T_index, pc, stack, L, maximal_itemsets,
          closed_itemsets, formed, overwrites, q_itemset, q_support>>

\* ------------------------------------------------------------------ dicts
EmptyDict == << >>

Put(d, key, val) == [x \in DOMAIN d \cup {key} |-> IF x = key THEN val ELSE d[x]]

\* dict.update: the entries of e replace those of d.
Update(d, e) == [x \in DOMAIN d \cup DOMAIN e |-> IF x \in DOMAIN e THEN e[x] ELSE d[x]]

\* dict.get(key, {}) on a table of level maps.
Level(table, k) == IF k \in DOMAIN table THEN table[k] ELSE EmptyDict

\* ------------------------------------------------------ inverted index
\* Python numbers the transactions from 0; sequence position i is index i - 1.
build_transactions_inverted_index(trans) ==
    [item \in UNION {trans[i] : i \in 1..Len(trans)} |->
        {i - 1 : i \in {j \in 1..Len(trans) : item \in trans[j]}}]

\* defaultdict(set).__getitem__: a missing key reads as the empty set ...
Posting(index, item) == IF item \in DOMAIN index THEN index[item] ELSE {}

\* ... and is inserted with that empty set.
Touch(index, keys) == [item \in DOMAIN index \cup keys |-> Posting(index, item)]

\* -------------------------------------------------------- compute_support
\* The items compute_support subscripts the index with.
Lookups_unguarded(itemset, index) == itemset
Lookups(itemset, index) == {item \in itemset : item \in DOMAIN index}

Intersection(sets) == {t \in UNION sets : \A s \in sets : t \in s}

compute_support_union(itemset, index) ==
    LET sets == {Posting(index, item) : item \in Lookups(itemset, index)}
    IN  IF sets = {} THEN 0 ELSE Cardinality(UNION sets)
compute_support(itemset, index) ==
    LET sets == {Posting(index, item) : item \in Lookups(itemset, index)}
    IN  IF sets = {} THEN 0 ELSE Cardinality(Intersection(sets))

\* The index after a call of compute_support.
IndexAfterSupport(itemset, index) == Touch(index, Lookups(itemset, index))

\* ------------------------------------------------ generate_frequent_itemsets
\* C(1): the number of transactions each occurring item is in.
C_1(trans) ==
    [item \in UNION {trans[i] : i \in 1..Len(trans)} |->
        Cardinality({i \in 1..Len(trans) : item \in trans[i]})]

\* The threshold test of the miner.
IsFrequent_strict(support, minsup) == support > minsup
IsFrequent(support, minsup) == support >= minsup

\* L(1): the items of C(1) that meet the threshold, with their counts.
L_1(trans, minsup) ==
    LET c == C_1(trans)
    IN  [item \in {x \in DOMAIN c : IsFrequent(c[x], minsup)} |-> c[item]]

\* ---------------------------------------------------- find_frequent_sets_rec
\* A call of find_frequent_sets_rec: its arguments, the items its loop has
\* still to visit, and its accumulator L_rec.
Frame(current_itemset, remaining_items, k) ==
    [current_itemset |-> current_itemset, remaining_items |-> remaining_items,
     todo |-> remaining_items, k |-> k, L_rec |-> EmptyDict]

\* L_rec[k][frozenset(new_set)] = support, on a defaultdict(dict).
Record(L_rec, k, new_set, support) ==
    Put(L_rec, k, Put(Level(L_rec, k), new_set, support))

\* The candidates passed down: the remaining items greater than the item added.
new_remaining_all_others(remaining_items, item) == remaining_items \ {item}
new_remaining(remaining_items, item) == {x \in remaining_items : x > item}

\* Whether the branch is explored further (line 127 skips an empty candidate set).
Explore_always(candidates) == TRUE
Explore(candidates) == candidates # {}

\* Merge of a recursive result into the accumulator.
Merge(L_rec, L_rec_new) ==
    [key \in DOMAIN L_rec \cup DOMAIN L_rec_new |->
        IF key \in DOMAIN L_rec_new
        THEN IF key \in DOMAIN L_rec
             THEN Update(L_rec[key], L_rec_new[key])
             ELSE L_rec_new[key]
        ELSE L_rec[key]]

\* What a call returns: {} when it recorded nothing at its own level.
Returned(L_rec, k) == IF Level(L_rec, k) = EmptyDict THEN EmptyDict ELSE L_rec

\* The itemset keys a merge writes although they are already present.
Clashes(L_rec, L_rec_new) ==
    UNION {DOMAIN L_rec[key] \cap DOMAIN L_rec_new[key] :
           key \in DOMAIN L_rec \cap DOMAIN L_rec_new}

BagAdd(bag, x) == Put(bag, x, IF x \in DOMAIN bag THEN bag[x] + 1 ELSE 1)

\* ------------------------------------------------------- summary extraction
\* The flattened table.  The levels of a mined table have disjoint key sets.
Flatten(table) ==
    [i \in UNION {DOMAIN table[k] : k \in DOMAIN table} |->
        table[CHOOSE k \in DOMAIN table : i \in DOMAIN table[k]][i]]

Restrict(d, keys) == [x \in DOMAIN d \cap keys |-> d[x]]

StrictSubset(X, Y) == X \subseteq Y /\ X # Y

get_maximal_itemsets_same_level(table) ==
    LET popped == UNION {{itemset \in DOMAIN table[k] :
                            \E other \in DOMAIN Level(table, k) :
                                StrictSubset(itemset, other)} : k \in DOMAIN table}
    IN  Restrict(Flatten(table), DOMAIN Flatten(table) \ popped)
get_maximal_itemsets(table) ==
    LET popped == UNION {{itemset \in DOMAIN table[k] :
                            \E other \in DOMAIN Level(table, k + 1) :
                                StrictSubset(itemset, other)} : k \in DOMAIN table}
    IN  Restrict(Flatten(table), DOMAIN Flatten(table) \ popped)

get_closed_itemsets_any_support(table) ==
    LET closed == UNION {{itemset \in DOMAIN table[k] :
                            ~ \E other \in DOMAIN Level(table, k + 1) :
                                StrictSubset(itemset, other)} : k \in DOMAIN table}
    IN  Restrict(Flatten(table), closed)
get_closed_itemsets(table) ==
    LET closed == UNION {{itemset \in DOMAIN table[k] :
                            ~ \E other \in DOMAIN Level(table, k + 1) :
                                /\ StrictSubset(itemset, other)
                                /\ table[k][itemset] = Level(table, k + 1)[other]} :
                         k \in DOMAIN table}
    IN  Restrict(Flatten(table), closed)

\* ------------------------------------------------------------ the program
Init ==
    /\ T \in Transactions
    /\ min_support \in 0..(Len(T) + 1)
    /\ T_index = EmptyDict
    /\ pc = "start"
    /\ stack = << >>
    /\ L = EmptyDict
    /\ maximal_itemsets = EmptyDict
    /\ closed_itemsets = EmptyDict
    /\ formed = EmptyDict
    /\ overwrites = 0
    /\ q_itemset = {}
    /\ q_support = 0

\* transactions_index = build_transactions_inverted_index(transactions)
BuildIndex ==
    /\ pc = "start"
    /\ T_index' = build_transactions_inverted_index(T)
    /\ pc' = "indexed"
    /\ UNCHANGED <<T, min_support, stack, L, maximal_itemsets, closed_itemsets,
                   formed, overwrites, q_itemset, q_support>>

\* generate_frequent_itemsets up to its root call of find_frequent_sets_rec.
Generate ==
    /\ pc = "indexed"
    /\ stack' = <<Frame({}, DOMAIN L_1(T, min_support), 1)>>
    /\ pc' = "mining"
    /\ UNCHANGED <<T, min_support, T_index, L, maximal_itemsets, closed_itemsets,
                   formed, overwrites, q_itemset, q_support>>

\* The number of calls of find_frequent_sets_rec that can be active at once
\* under the interpreter's default recursion limit of 1000 frames: the module
\* frame, generate_frequent_itemsets and the frames of compute_support take
\* the rest.  The pass of the loop body that runs with this many calls active
\* raises RecursionError.
RecursionLimit == 997

\* One pass of the loop body of the innermost call, for any item the loop has
\* not visited yet (a set is iterated in no particular order), up to the
\* recursive call or the end of the pass.  With RecursionLimit calls active
\* the call of compute_support raises RecursionError: nothing is recorded,
\* the exception unwinds every call and the program ends without a table.
LoopBody(item) ==
    /\ pc = "mining"
    /\ stack # << >>
    /\ LET n == Len(stack)
           f == stack[n]
           new_set == f.current_itemset \cup {item}
           support == compute_support(new_set, T_index)
           candidates == new_remaining(f.remaining_items, item)
           visited == [f EXCEPT !.todo = f.todo \ {item}]
       IN  /\ item \in f.todo
           /\ formed' = BagAdd(formed, new_set)
           /\ IF n >= RecursionLimit
              THEN /\ stack' = << >>
                   /\ pc' = "aborted"
                   /\ UNCHANGED <<T_index, overwrites>>
              ELSE /\ pc' = pc
                   /\ T_index' = IndexAfterSupport(new_set, T_index)
                   /\ IF IsFrequent(support, min_support)
                      THEN LET recorded == [visited EXCEPT !.L_rec = Record(f.L_rec, f.k, new_set, support)]
                           IN  /\ overwrites' = IF new_set \in DOMAIN Level(f.L_rec, f.k)
                                                THEN overwrites + 1 ELSE overwrites
                               /\ IF Explore(candidates)
                                  THEN stack' = Append([stack EXCEPT ![n] = recorded],
                                                       Frame(new_set, candidates, f.k + 1))
                                  ELSE stack' = [stack EXCEPT ![n] = recorded]
                      ELSE /\ stack' = [stack EXCEPT ![n] = visited]
                           /\ overwrites' = overwrites
    /\ UNCHANGED <<T, min_support, L, maximal_itemsets, closed_itemsets,
                   q_itemset, q_support>>

\* The innermost call has visited every item: it returns, and its caller
\* merges the result (the root call's result is the table).
Return ==
    /\ pc = "mining"
    /\ stack # << >>
    /\ LET n == Len(stack)
           f == stack[n]
           result == Returned(f.L_rec, f.k)
       IN  /\ f.todo = {}
           /\ IF n = 1
              THEN /\ L' = result
                   /\ stack' = << >>
                   /\ pc' = "mined"
                   /\ overwrites' = overwrites
              ELSE LET caller == stack[n - 1]
                   IN  /\ stack' = [SubSeq(stack, 1, n - 1) EXCEPT
                                       ![n - 1].L_rec = Merge(caller.L_rec, result)]
                       /\ overwrites' = overwrites + Cardinality(Clashes(caller.L_rec, result))
                       /\ UNCHANGED <<L, pc>>
    /\ UNCHANGED <<T, min_support, T_index, maximal_itemsets, closed_itemsets,
                   formed, q_itemset, q_support>>

\* maximal_itemsets = get_maximal_itemsets(frequent_itemsets)
GetMaximal ==
    /\ pc = "mined"
    /\ maximal_itemsets' = get_maximal_itemsets(L)
    /\ pc' = "maximal"
    /\ UNCHANGED <<T, min_support, T_index, stack, L, closed_itemsets,
                   formed, overwrites, q_itemset, q_support>>

\* closed_itemsets = get_closed_itemsets(frequent_itemsets)
GetClosed ==
    /\ pc = "maximal"
    /\ closed_itemsets' = get_closed_itemsets(L)
    /\ pc' = "done"
    /\ UNCHANGED <<T, min_support, T_index, stack, L, maximal_itemsets,
                   formed, overwrites, q_itemset, q_support>>

\* A direct call of compute_support on the built index, for any itemset.
CallComputeSupport(itemset) ==
    /\ pc = "done"
    /\ q_itemset' = itemset
    /\ q_support' = compute_support(itemset, T_index)
    /\ T_index' = IndexAfterSupport(itemset, T_index)
    /\ pc' = "queried"
    /\ UNCHANGED <<T, min_support, stack, L, maximal_itemsets, closed_itemsets,
                   formed, overwrites>>

Next ==
    \/ BuildIndex
    \/ Generate
    \/ \E item \in Items : LoopBody(item)
    \/ Return
    \/ GetMaximal
    \/ GetClosed
    \/ \E itemset \in SUBSET Items : CallComputeSupport(itemset)

Spec == Init /\ [][Next]_vars

\* The program is sequential and runs to completion once started.
FairSpec == Spec /\ WF_vars(Next)

\* ------------------------------------------------------------- properties
\* The support of an itemset by definition: the number of transactions that
\* contain it.
SupportOf(X, trans) == Cardinality({i \in 1..Len(trans) : X \subseteq trans[i]})

Universe(trans) == UNION {trans[i] : i \in 1..Len(trans)}

FrequentSets(trans, minsup) ==
    {X \in SUBSET Universe(trans) : X # {} /\ SupportOf(X, trans) >= minsup}

\* generate_frequent_itemsets has returned.
TableReturned == pc \in {"mined", "maximal", "done", "queried"}

Keys(table) == UNION {DOMAIN table[k] : k \in DOMAIN table}

\* The level-k entry of an itemset of the table.
Entry(table, X) == table[Cardinality(X)][X]

\* C1: the returned table holds exactly the non-empty itemsets over the
\* occurring items whose support is at least min_support, each at the level
\* of its size with its exact support, and has no empty level.
C1_TableIsExactlyTheFrequentSets ==
    TableReturned =>
        /\ \A k \in DOMAIN L :
              /\ DOMAIN L[k] # {}
              /\ \A X \in DOMAIN L[k] :
                    /\ Cardinality(X) = k
                    /\ X \in FrequentSets(T, min_support)
                    /\ L[k][X] = SupportOf(X, T)
        /\ \A X \in FrequentSets(T, min_support) :
              /\ Cardinality(X) \in DOMAIN L
              /\ X \in DOMAIN L[Cardinality(X)]

\* A table with at least two levels was returned while some itemset over the
\* occurring items was infrequent.
C1_Witness ==
    /\ pc = "mined"
    /\ min_support >= 1
    /\ 2 \in DOMAIN L
    /\ \E X \in SUBSET Universe(T) : X # {} /\ SupportOf(X, T) < min_support

\* C2 (as claimed): compute_support returns 0 for every itemset that holds an
\* item absent from the index.
C2_AbsentItemForcesZero ==
    (pc = "queried" /\ \E item \in q_itemset : item \notin DOMAIN T_index)
        => q_support = 0

\* C3: the maximal itemsets are exactly the entries of the table that have no
\* strict superset at any level of it, with their table supports.
C3_MaximalIsNoSupersetAnywhere ==
    pc \in {"maximal", "done", "queried"} =>
        LET keep == {I \in Keys(L) : ~ \E J \in Keys(L) : StrictSubset(I, J)}
        IN  maximal_itemsets = [I \in keep |-> Entry(L, I)]

\* An itemset of level 1 with a superset at level 3 was removed.
C3_Witness ==
    /\ pc = "maximal"
    /\ \E I \in DOMAIN Level(L, 1) : \E J \in DOMAIN Level(L, 3) :
          StrictSubset(I, J) /\ I \notin DOMAIN maximal_itemsets

\* C4: the closed itemsets are exactly the entries of the table all of whose
\* strict supersets, at any level, have a strictly lower support.
C4_ClosedIsNoEqualSupersetAnywhere ==
    pc \in {"done", "queried"} =>
        LET keep == {I \in Keys(L) :
                        \A J \in Keys(L) :
                            StrictSubset(I, J) => Entry(L, J) < Entry(L, I)}
        IN  closed_itemsets = [I \in keep |-> Entry(L, I)]

\* An itemset of level 1 was excluded by an equal-support superset at level
\* 3, while another itemset that has a superset in the table is closed.
C4_Witness ==
    /\ pc = "done"
    /\ \E I \in DOMAIN Level(L, 1) : \E J \in DOMAIN Level(L, 3) :
          /\ StrictSubset(I, J)
          /\ L[1][I] = L[3][J]
          /\ I \notin DOMAIN closed_itemsets
    /\ \E I \in DOMAIN closed_itemsets : \E J \in Keys(L) : StrictSubset(I, J)

\* C5 (as claimed): for the empty itemset compute_support returns the number
\* of transactions.
C5_EmptyItemsetCountsAllTransactions ==
    (pc = "queried" /\ q_itemset = {}) => q_support = Len(T)

Scenario1Done == T = Scenario1 /\ min_support = 2 /\ pc = "done"

Scenario1Table == (1 :> (({1} :> 3) @@ ({2} :> 2))) @@ (2 :> ({1, 2} :> 2))

\* C6 (as claimed): scenario 1 yields the table {A}:3, {B}:2, {A,B}:2, Maximal
\* = {{A,B}:2} and Closed = {{A,B}:2}.
C6_Scenario1AsClaimed ==
    Scenario1Done =>
        /\ L = Scenario1Table
        /\ maximal_itemsets = ({1, 2} :> 2)
        /\ closed_itemsets = ({1, 2} :> 2)

\* C6 (amended): scenario 1 yields the table {A}:3, {B}:2, {A,B}:2, Maximal =
\* {{A,B}:2} and Closed = {{A}:3, {A,B}:2}.
C6_Scenario1 ==
    Scenario1Done =>
        /\ L = Scenario1Table
        /\ maximal_itemsets = ({1, 2} :> 2)
        /\ closed_itemsets = (({1} :> 3) @@ ({1, 2} :> 2))

\* Scenario 1 was run to the end.
C6_Witness == Scenario1Done /\ DOMAIN L = {1, 2}

\* C7: every itemset at level k has k items, and for k >= 2 each of its
\* (k-1)-subsets is at level k-1 with a support that is not lower.
C7_AprioriClosure ==
    TableReturned =>
        \A k \in DOMAIN L : \A X \in DOMAIN L[k] :
            /\ Cardinality(X) = k
            /\ k >= 2 =>
                  \A x \in X :
                      /\ k - 1 \in DOMAIN L
                      /\ (X \ {x}) \in DOMAIN L[k - 1]
                      /\ L[k - 1][X \ {x}] >= L[k][X]

\* A table with an itemset of level 3 one of whose 2-subsets has a strictly
\* greater support.
C7_Witness ==
    /\ pc = "mined"
    /\ \E X \in DOMAIN Level(L, 3) : \E x \in X : L[2][X \ {x}] > L[3][X]

\* C8: no itemset is formed and support-counted twice, no record step or
\* merge writes a key that is already present, and every itemset of the
\* returned table was formed exactly once.
C8_NoItemsetTwice ==
    /\ \A X \in DOMAIN formed : formed[X] = 1
    /\ overwrites = 0
    /\ TableReturned => Keys(L) \subseteq DOMAIN formed

\* A search that formed itemsets of three sizes and recorded at three levels.
C8_Witness ==
    /\ pc = "mined"
    /\ DOMAIN L = {1, 2, 3}
    /\ Cardinality(DOMAIN formed) >= 5

\* The item a call added to its caller's itemset.
Added(i) == stack[i].current_itemset \ stack[i - 1].current_itemset

\* Every active recursive call got a non-empty strict subset of its caller's
\* candidates, without the item just added and the items smaller than it, and
\* the depth is bounded by the number of frequent single items.
CandidatesShrink ==
    /\ \A i \in 2..Len(stack) :
          /\ stack[i].remaining_items # {}
          /\ StrictSubset(stack[i].remaining_items, stack[i - 1].remaining_items)
          /\ \A a \in Added(i) : \A y \in stack[i].remaining_items : y > a
    /\ Len(stack) >= 2 => Len(stack) <= Cardinality(stack[1].remaining_items)

\* C9: the candidates shrink on every recursive call, the depth stays bounded,
\* and every run of the search ends with generate_frequent_itemsets returning.
C9_SearchTerminates == [] CandidatesShrink /\ <> TableReturned

\* A recursion three calls deep.
C9_Witness == pc = "mining" /\ Len(stack) = 3

\* C10: once built, the index is never changed: not by the search, not by a
\* direct call of compute_support.
C10_IndexReadOnly == [][pc # "start" => T_index' = T_index]_vars

\* After a whole search, compute_support was called with an itemset holding
\* an item absent from the index, and the index is still the one built.
C10_Witness ==
    /\ pc = "queried"
    /\ \E item \in q_itemset : item \notin DOMAIN T_index
    /\ T_index = build_transactions_inverted_index(T)

====
